---------------------------- MODULE Spec2Model ----------------------------
(***************************************************************************)
(* A model of the FastAPI template: the settings loader and the database   *)
(* bootstrap (app/core/config.py, app/db/database.py), the per-request     *)
(* session dependencies (app/db/deps.py), the HTTP application with its    *)
(* timing middleware and exception handler (main.py), and the generic      *)
(* CRUD accessor (app/crud/base.py).                                       *)
(***************************************************************************)
EXTENDS Integers, Sequences, FiniteSets, TLC

(***************************************************************************)
(* Bounds of the model.                                                    *)
(***************************************************************************)
MaxReq == 2
MaxDirect == 1

Requests == 1..MaxReq

VARIABLES
    databaseUrl,   \* the DATABASE_URL of the environment
    boot,          \* how far the import / startup sequence has come
    engine,        \* app.db.database.engine
    SessionLocal,  \* app.db.database.SessionLocal
    tables,        \* what create_tables did at startup
    pc,            \* per request: where its processing stands
    dep,           \* per request: the session dependency of its route
    acq,           \* per request: what the session dependency produced
    sess,          \* per request: the state of the session get_db made
    closes,        \* per request: how many times db.close() ran
    rolledBack,    \* per request: whether db.rollback() ran
    exc,           \* per request: the exception in flight
    status,        \* per request: the status code of the response sent
    header,        \* per request: whether the response has X-Process-Time
    directCalls,   \* calls of get_db_session() so far
    directOpen,    \* sessions get_db_session() returned (the caller's to close)
    directRaised,  \* whether a get_db_session() call raised
    table,         \* the committed rows of the model's table: id -> [a, b]
    held,          \* ids of the records whose instances the caller keeps
    loaded,        \* the held instances whose attributes are loaded (unexpired)
    dirty,         \* attribute changes pending in the session: [id, field, value]
    inactive,      \* the session's transaction was rolled back by a failed flush
    leaked,        \* changes of failed bulk calls that the last call's commit persisted
    last           \* the last CRUD call: its arguments, the table before, its result

cfgVars == <<databaseUrl, boot, engine, SessionLocal, tables>>
reqVars == <<pc, dep, acq, sess, closes, rolledBack, exc, status, header>>
dirVars == <<directCalls, directOpen, directRaised>>

crudVars == <<table, held, loaded, dirty, inactive, leaked, last>>

vars == <<cfgVars, reqVars, dirVars, crudVars>>

(***************************************************************************)
(* Configuration: app/core/config.py                                       *)
(***************************************************************************)
\* The environments: DATABASE_URL absent, set to the empty string, an sqlite
\* URL, or the URL of another database.
UrlKinds == {"missing", "empty", "sqlite", "other"}

\* class Config sets env_file, env_file_encoding and case_sensitive only:
\* pydantic's strict mode is left at its default, off.
StrictValidation == FALSE

\* Settings(): DATABASE_URL is declared "DATABASE_URL: str" with no default,
\* so it is a required field; a value that is present, the empty string
\* included, is accepted.
SettingsLoad(url) == url # "missing"

\* settings = Settings() at import of app.core.config
LoadSettings ==
    /\ boot = "init"
    /\ boot' = IF SettingsLoad(databaseUrl) THEN "settings" ELSE "failed"
    /\ UNCHANGED <<databaseUrl, engine, SessionLocal, tables, reqVars, dirVars, crudVars>>

(***************************************************************************)
(* Database bootstrap: app/db/database.py                                  *)
(***************************************************************************)
\* "not settings.DATABASE_URL": the empty string is falsy
CreateEngine(url) ==
    IF url = "empty" THEN "None"
    ELSE IF url = "sqlite" THEN "sqlite_static_pool"
    ELSE "pooled"

MakeSessionLocal(eng) == IF eng # "None" THEN "sessionmaker" ELSE "None"

\* import of app.db.database: engine and SessionLocal are module globals
ImportDatabase ==
    /\ boot = "settings"
    /\ engine' = CreateEngine(databaseUrl)
    /\ SessionLocal' = MakeSessionLocal(CreateEngine(databaseUrl))
    /\ boot' = "database"
    /\ UNCHANGED <<databaseUrl, tables, reqVars, dirVars, crudVars>>

\* create_tables(): a no-op without an engine; create_all may raise (the
\* database refuses, is unreachable, ...)
create_tables(eng, fails) ==
    IF eng = "None" THEN "noop"
    ELSE IF fails THEN "raised"
    ELSE "created"

(***************************************************************************)
(* Application startup: main.py                                            *)
(***************************************************************************)
\* lifespan(): create_tables() inside try/except Exception, then the startup
\* time is stored and the application serves.
lifespan ==
    /\ boot = "database"
    /\ \E fails \in BOOLEAN :
         tables' = create_tables(engine, fails)
    /\ boot' = "started"
    /\ UNCHANGED <<databaseUrl, engine, SessionLocal, reqVars, dirVars, crudVars>>

(***************************************************************************)
(* Request processing: main.py, app/db/deps.py, app/db/database.py         *)
(*                                                                         *)
(* pc of a request: "new", "resolve" (inside call_next, the route's        *)
(* dependencies being resolved), "endpoint" (the route function runs),     *)
(* "exit_dep" (the dependency generator is resumed), "exc_handler" (an     *)
(* HTTP exception reached the registered handler), "mw_after" (call_next   *)
(* returned a response to the middleware), "propagate" (an exception is    *)
(* leaving call_next), "sent".                                             *)
(***************************************************************************)
\* The routes: without a session, with Depends(app.db.deps.get_db) (the one
\* app/api/deps.py imports), with Depends(app.db.database.get_db).
Deps == {"none", "deps", "database"}

\* What a route function does: return, raise an HTTPException, raise another
\* exception.
Outcomes == {"none", "http", "other"}

\* Where a request goes once the route function and the dependency are done.
AfterEndpoint(e) ==
    IF e = "none" THEN "mw_after"
    ELSE IF e = "http" THEN "exc_handler"
    ELSE "propagate"

\* add_process_time_header, up to "await call_next(request)"
add_process_time_header_enter(r) ==
    /\ boot = "started"
    /\ pc[r] = "new"
    /\ \E d \in Deps : dep' = [dep EXCEPT ![r] = d]
    /\ pc' = [pc EXCEPT ![r] = "resolve"]
    /\ UNCHANGED <<cfgVars, acq, sess, closes, rolledBack, exc, status, header,
                   dirVars, crudVars>>

\* A route without a session dependency (the root endpoint).
resolve_none(r) ==
    /\ pc[r] = "resolve"
    /\ dep[r] = "none"
    /\ pc' = [pc EXCEPT ![r] = "endpoint"]
    /\ UNCHANGED <<cfgVars, dep, acq, sess, closes, rolledBack, exc, status,
                   header, dirVars, crudVars>>

\* app.db.deps.get_db up to its yield: "db = SessionLocal()" with no test of
\* SessionLocal; calling None raises TypeError, which leaves call_next.
deps_get_db_enter(r) ==
    /\ pc[r] = "resolve"
    /\ dep[r] = "deps"
    /\ IF SessionLocal = "None"
       THEN /\ acq' = [acq EXCEPT ![r] = "raised"]
            /\ exc' = [exc EXCEPT ![r] = "other"]
            /\ pc' = [pc EXCEPT ![r] = "propagate"]
            /\ UNCHANGED sess
       ELSE /\ acq' = [acq EXCEPT ![r] = "session"]
            /\ sess' = [sess EXCEPT ![r] = "open"]
            /\ pc' = [pc EXCEPT ![r] = "endpoint"]
            /\ UNCHANGED exc
    /\ UNCHANGED <<cfgVars, dep, closes, rolledBack, status, header, dirVars, crudVars>>

\* app.db.database.get_db up to its yield: without SessionLocal it logs a
\* warning and returns, so the generator ends without a session (the framework
\* then fails the request: the dependency did not yield).
database_get_db_enter(r) ==
    /\ pc[r] = "resolve"
    /\ dep[r] = "database"
    /\ IF SessionLocal = "None"
       THEN /\ acq' = [acq EXCEPT ![r] = "noop"]
            /\ exc' = [exc EXCEPT ![r] = "other"]
            /\ pc' = [pc EXCEPT ![r] = "propagate"]
            /\ UNCHANGED sess
       ELSE /\ acq' = [acq EXCEPT ![r] = "session"]
            /\ sess' = [sess EXCEPT ![r] = "open"]
            /\ pc' = [pc EXCEPT ![r] = "endpoint"]
            /\ UNCHANGED exc
    /\ UNCHANGED <<cfgVars, dep, closes, rolledBack, status, header, dirVars, crudVars>>

\* The route function runs and returns or raises.
endpoint(r) ==
    /\ pc[r] = "endpoint"
    /\ \E e \in Outcomes :
         /\ exc' = [exc EXCEPT ![r] = e]
         /\ pc' = [pc EXCEPT ![r] =
                     IF sess[r] = "open" THEN "exit_dep" ELSE AfterEndpoint(e)]
         /\ status' = [status EXCEPT ![r] = IF e = "none" THEN 200 ELSE @]
    /\ UNCHANGED <<cfgVars, dep, acq, sess, closes, rolledBack, header, dirVars, crudVars>>

\* A generator that closes the session only when the route function returned.
deps_get_db_exit_no_finally(r) ==
    /\ pc[r] = "exit_dep"
    /\ dep[r] = "deps"
    /\ \E rollbackRaises \in BOOLEAN :
         /\ rolledBack' = [rolledBack EXCEPT ![r] = exc[r] # "none"]
         /\ exc' = [exc EXCEPT ![r] =
                      IF exc[r] # "none" /\ rollbackRaises THEN "other" ELSE @]
    /\ sess' = [sess EXCEPT ![r] = IF exc[r] = "none" THEN "closed" ELSE @]
    /\ closes' = [closes EXCEPT ![r] = IF exc[r] = "none" THEN @ + 1 ELSE @]
    /\ pc' = [pc EXCEPT ![r] = AfterEndpoint(exc'[r])]
    /\ UNCHANGED <<cfgVars, dep, acq, status, header, dirVars, crudVars>>

\* app.db.deps.get_db from its yield on: an exception of the route function is
\* thrown into the generator, "except Exception" rolls back and re-raises
\* (the rollback may itself raise), and "finally" closes the session.
deps_get_db_exit(r) ==
    /\ pc[r] = "exit_dep"
    /\ dep[r] = "deps"
    /\ \E rollbackRaises \in BOOLEAN :
         /\ rolledBack' = [rolledBack EXCEPT ![r] = exc[r] # "none"]
         /\ exc' = [exc EXCEPT ![r] =
                      IF exc[r] # "none" /\ rollbackRaises THEN "other" ELSE @]
    /\ sess' = [sess EXCEPT ![r] = "closed"]
    /\ closes' = [closes EXCEPT ![r] = @ + 1]
    /\ pc' = [pc EXCEPT ![r] = AfterEndpoint(exc'[r])]
    /\ UNCHANGED <<cfgVars, dep, acq, status, header, dirVars, crudVars>>

\* app.db.database.get_db from its yield on: "finally" closes the session.
database_get_db_exit(r) ==
    /\ pc[r] = "exit_dep"
    /\ dep[r] = "database"
    /\ sess' = [sess EXCEPT ![r] = "closed"]
    /\ closes' = [closes EXCEPT ![r] = @ + 1]
    /\ pc' = [pc EXCEPT ![r] = AfterEndpoint(exc[r])]
    /\ UNCHANGED <<cfgVars, dep, acq, rolledBack, exc, status, header, dirVars, crudVars>>

\* http_exception_handler: a JSONResponse with the exception's status code
\* (404 stands for any of them).
http_exception_handler(r) ==
    /\ pc[r] = "exc_handler"
    /\ status' = [status EXCEPT ![r] = 404]
    /\ exc' = [exc EXCEPT ![r] = "none"]
    /\ pc' = [pc EXCEPT ![r] = "mw_after"]
    /\ UNCHANGED <<cfgVars, dep, acq, sess, closes, rolledBack, header, dirVars, crudVars>>

\* add_process_time_header after call_next returned a response: the header is
\* set and the response returned.
add_process_time_header_exit(r) ==
    /\ pc[r] = "mw_after"
    /\ header' = [header EXCEPT ![r] = TRUE]
    /\ pc' = [pc EXCEPT ![r] = "sent"]
    /\ UNCHANGED <<cfgVars, dep, acq, sess, closes, rolledBack, exc, status,
                   dirVars, crudVars>>

\* add_process_time_header when call_next raises: "await call_next(request)"
\* stands in no try block, so the lines after it do not run; the exception
\* leaves the middleware and the server answers 500 with a response the
\* middleware never saw.
add_process_time_header_raise(r) ==
    /\ pc[r] = "propagate"
    /\ status' = [status EXCEPT ![r] = 500]
    /\ pc' = [pc EXCEPT ![r] = "sent"]
    /\ UNCHANGED <<cfgVars, dep, acq, sess, closes, rolledBack, exc, header,
                   dirVars, crudVars>>

\* get_db_session(): "return SessionLocal()", called directly.
get_db_session ==
    /\ boot = "started"
    /\ directCalls < MaxDirect
    /\ directCalls' = directCalls + 1
    /\ IF SessionLocal = "None"
       THEN directRaised' = TRUE /\ UNCHANGED directOpen
       ELSE directOpen' = directOpen + 1 /\ UNCHANGED directRaised
    /\ UNCHANGED <<cfgVars, reqVars, crudVars>>

\* No CRUD accessor is in use: the template defines no route that has one.
CrudIdle ==
    /\ table = << >>
    /\ held = {}
    /\ loaded = {}
    /\ dirty = {}
    /\ inactive = FALSE
    /\ leaked = {}
    /\ last = [op |-> "none"]

(***************************************************************************)
(* The application: startup, then requests.                                *)
(***************************************************************************)
Init ==
    /\ databaseUrl \in UrlKinds
    /\ boot = "init"
    /\ engine = "None"
    /\ SessionLocal = "None"
    /\ tables = "none"
    /\ pc = [r \in Requests |-> "new"]
    /\ dep = [r \in Requests |-> "none"]
    /\ acq = [r \in Requests |-> "none"]
    /\ sess = [r \in Requests |-> "none"]
    /\ closes = [r \in Requests |-> 0]
    /\ rolledBack = [r \in Requests |-> FALSE]
    /\ exc = [r \in Requests |-> "none"]
    /\ status = [r \in Requests |-> 0]
    /\ header = [r \in Requests |-> FALSE]
    /\ directCalls = 0
    /\ directOpen = 0
    /\ directRaised = FALSE
    /\ CrudIdle

Serve(r) ==
    \/ add_process_time_header_enter(r)
    \/ resolve_none(r)
    \/ deps_get_db_enter(r)
    \/ database_get_db_enter(r)
    \/ endpoint(r)
    \/ deps_get_db_exit(r)
    \/ database_get_db_exit(r)
    \/ http_exception_handler(r)
    \/ add_process_time_header_exit(r)
    \/ add_process_time_header_raise(r)

Next ==
    \/ LoadSettings
    \/ ImportDatabase
    \/ lifespan
    \/ get_db_session
    \/ \E r \in Requests : Serve(r)

Spec == Init /\ [][Next]_vars

\* The server keeps running a request it has accepted: every step of a
\* request that can be taken is taken.
SpecFair == Spec /\ \A r \in Requests : WF_vars(Serve(r))

(***************************************************************************)
(* Properties of the application.                                          *)
(***************************************************************************)
\* C1: a request that acquired a session through a get_db dependency closes
\* it exactly once by the time the request completes, whether the route
\* function returned or raised: close never runs twice, a completed request
\* has closed its session once, and every session get_db opened is
\* eventually closed.
C1_SessionClosedExactlyOnce ==
    /\ [](\A r \in Requests :
            /\ closes[r] <= 1
            /\ (sess[r] = "closed") <=> (closes[r] = 1)
            /\ (pc[r] = "sent" /\ acq[r] = "session") => sess[r] = "closed")
    /\ \A r \in Requests : (sess[r] = "open") ~> (sess[r] = "closed")

\* C1, reached: one request whose route function raised and one whose route
\* function returned have both completed with their sessions closed once.
C1_Witness ==
    \E r1, r2 \in Requests :
        /\ pc[r1] = "sent" /\ acq[r1] = "session" /\ rolledBack[r1]
        /\ closes[r1] = 1
        /\ pc[r2] = "sent" /\ acq[r2] = "session" /\ status[r2] = 200
        /\ closes[r2] = 1

\* C2: without a connection string (engine and SessionLocal are None) every
\* session-acquisition path and create_tables is a no-op: none raises and
\* none produces a session.
C2_NoOpWithoutConnectionString ==
    (boot = "started" /\ engine = "None" /\ SessionLocal = "None") =>
        /\ \A r \in Requests : acq[r] \in {"none", "noop"}
        /\ ~directRaised
        /\ directOpen = 0
        /\ tables = "noop"

\* C3: the settings loader rejects a missing connection string only when
\* validation is strict; in every other case without a usable connection
\* string, loading succeeds, engine and SessionLocal are None and the
\* application starts.
C3_MissingUrlRejectedOnlyWhenStrict ==
    /\ boot = "failed" => StrictValidation
    /\ (/\ boot \in {"failed", "started"}
        /\ databaseUrl \in {"missing", "empty"}
        /\ ~(databaseUrl = "missing" /\ StrictValidation))
       => (boot = "started" /\ engine = "None" /\ SessionLocal = "None")

\* C6: every response sent carries the X-Process-Time header, the responses
\* for HTTP exceptions and for any other exception of the route included.
C6_EveryResponseHasProcessTime ==
    \A r \in Requests : pc[r] = "sent" => header[r]

(***************************************************************************)
(* The generic CRUD accessor: app/crud/base.py                             *)
(*                                                                         *)
(* CRUDBase is generic in the model class.  The model here has the primary *)
(* key id and two data columns, a and b; "zz" is a name that is no         *)
(* attribute of the model class.                                           *)
(***************************************************************************)
MaxId == 2
MaxVal == 1
MaxList == 2
MaxFilters == 2
MaxSkip == 1
MaxLimit == 2

Ids == 1..MaxId
Val == 0..MaxVal
Columns == {"id", "a", "b"}
Keys == {"a", "b", "zz"}
None == "None"

Rows == [a : Val, b : Val]
Tables == UNION {[S -> Rows] : S \in SUBSET Ids}

SeqsUpTo(S, n) == UNION {[1..k -> S] : k \in 0..n}
Range(s) == {s[k] : k \in DOMAIN s}
Min(x, y) == IF x <= y THEN x ELSE y
Max(x, y) == IF x >= y THEN x ELSE y

\* hasattr(self.model, field)
hasattr(field) == field \in Columns

\* getattr of the row with id i of table t
Col(t, i, field) == IF field = "id" THEN i ELSE t[i][field]

\* The model instance of row i as the caller reads it.
Obj(t, i) == [id |-> i, a |-> t[i].a, b |-> t[i].b]

\* A filter value: a scalar (isList FALSE, vals the one value) or a list.
Scalar(v) == [isList |-> FALSE, vals |-> <<v>>]
List(s) == [isList |-> TRUE, vals |-> s]
FilterValues == {Scalar(v) : v \in Val} \cup {List(s) : s \in SeqsUpTo(Val, MaxList)}

\* A filters dictionary in its iteration order: entries with distinct keys.
FilterEntries == [field : Keys, value : FilterValues]
FilterDicts ==
    {fs \in SeqsUpTo(FilterEntries, MaxFilters) :
        \A j, k \in DOMAIN fs : j # k => fs[j].field # fs[k].field}

\* get_multi, one turn of "for field, value in filters.items()": a name that
\* is no attribute is skipped, a list value filters with IN, any other value
\* with ==.
get_multi_filter(t, rows, e) ==
    IF ~hasattr(e.field) THEN rows
    ELSE IF e.value.isList
         THEN {i \in rows : Col(t, i, e.field) \in Range(e.value.vals)}
         ELSE {i \in rows : Col(t, i, e.field) = e.value.vals[1]}

\* get_multi, the loop over the filters: each turn narrows the query.
RECURSIVE get_multi_filters(_, _, _)
get_multi_filters(t, rows, fs) ==
    IF fs = << >> THEN rows
    ELSE get_multi_filters(t, get_multi_filter(t, rows, Head(fs)), Tail(fs))

Perms(S) ==
    {s \in [1..Cardinality(S) -> S] : \A j, k \in DOMAIN s : j # k => s[j] # s[k]}

\* get_multi, "if order_by and hasattr(self.model, order_by)": the orders in
\* which the database may return the rows.  With ORDER BY the rows are sorted
\* by the column, rows equal in it in any order; without, in any order.
OrderByAny(t, rows, order_by, order_desc) == Perms(rows)

OrderBy(t, rows, order_by, order_desc) ==
    IF order_by # None /\ hasattr(order_by)
    THEN {s \in Perms(rows) :
            \A j, k \in DOMAIN s : j < k =>
                IF order_desc
                THEN Col(t, s[j], order_by) >= Col(t, s[k], order_by)
                ELSE Col(t, s[j], order_by) <= Col(t, s[k], order_by)}
    ELSE Perms(rows)

\* query.offset(skip).limit(limit)
OffsetLimit(s, skip, limit) == SubSeq(s, skip + 1, Min(Len(s), skip + limit))

OrderBys == {None, "a", "zz"}

\* get_multi: filters, ordering, offset and limit, then all().
get_multi(filters, order_by, order_desc, skip, limit) ==
    /\ ~inactive
    /\ \E s \in OrderBy(table, get_multi_filters(table, DOMAIN table, filters),
                        order_by, order_desc) :
         last' = [op |-> "get_multi", filters |-> filters, order_by |-> order_by,
                  order_desc |-> order_desc, skip |-> skip, limit |-> limit,
                  pre |-> table, committed |-> FALSE, raised |-> FALSE,
                  ret |-> [k \in DOMAIN OffsetLimit(s, skip, limit) |->
                             Obj(table, OffsetLimit(s, skip, limit)[k])]]
    /\ UNCHANGED <<cfgVars, reqVars, dirVars, table, held, loaded, dirty,
                   inactive, leaked>>

\* count, one turn of its loop over the filters: always "==", a list value
\* included.  No scalar column equals a list, so where the database accepts
\* the comparison no row passes it.
count_filter(t, rows, e) ==
    IF ~hasattr(e.field) THEN rows
    ELSE IF e.value.isList
         THEN {}
         ELSE {i \in rows : Col(t, i, e.field) = e.value.vals[1]}

RECURSIVE count_filters(_, _, _)
count_filters(t, rows, fs) ==
    IF fs = << >> THEN rows
    ELSE count_filters(t, count_filter(t, rows, Head(fs)), Tail(fs))

\* Whether count compares a column with a list.
ComparesWithList(fs) == \E k \in DOMAIN fs : hasattr(fs[k].field) /\ fs[k].value.isList

\* count: query.count() of the filtered query.  A list bound to "==" is
\* rejected by some database drivers (the call raises) and compared by
\* others: either may happen.
count(filters) ==
    /\ ~inactive
    /\ \E raises \in {FALSE, ComparesWithList(filters)} :
         last' = [op |-> "count", filters |-> filters, pre |-> table,
                  committed |-> FALSE, raised |-> raises,
                  ret |-> IF raises THEN 0
                          ELSE Cardinality(count_filters(table, DOMAIN table, filters))]
    /\ UNCHANGED <<cfgVars, reqVars, dirVars, table, held, loaded, dirty,
                   inactive, leaked>>

\* The application is up, with a database configured.
AppServing ==
    /\ databaseUrl = "sqlite"
    /\ boot = "started"
    /\ engine = CreateEngine("sqlite")
    /\ SessionLocal = MakeSessionLocal(CreateEngine("sqlite"))
    /\ tables = "created"
    /\ pc = [r \in Requests |-> "new"]
    /\ dep = [r \in Requests |-> "none"]
    /\ acq = [r \in Requests |-> "none"]
    /\ sess = [r \in Requests |-> "none"]
    /\ closes = [r \in Requests |-> 0]
    /\ rolledBack = [r \in Requests |-> FALSE]
    /\ exc = [r \in Requests |-> "none"]
    /\ status = [r \in Requests |-> 0]
    /\ header = [r \in Requests |-> FALSE]
    /\ directCalls = 0
    /\ directOpen = 0
    /\ directRaised = FALSE

\* A session on a table of any content, nothing pending, no instance kept,
\* and one call of the accessor to come.
InitCrud ==
    /\ AppServing
    /\ table \in Tables
    /\ held = {}
    /\ loaded = {}
    /\ dirty = {}
    /\ inactive = FALSE
    /\ leaked = {}
    /\ last = [op |-> "none"]

(***************************************************************************)
(* The queries of the accessor on any table.                               *)
(***************************************************************************)
\* One call is made on the table drawn.
CallGetMulti ==
    /\ last.op = "none"
    /\ \E fs \in FilterDicts, ob \in OrderBys, d \in BOOLEAN,
          skip \in 0..MaxSkip, limit \in 0..MaxLimit :
         get_multi(fs, ob, d, skip, limit)

CallCount ==
    /\ last.op = "none"
    /\ \E fs \in FilterDicts : count(fs)

NextQuery == CallGetMulti \/ CallCount

SpecQuery == InitCrud /\ [][NextQuery]_vars

(***************************************************************************)
(* The session as the accessor's writes use it.                            *)
(*                                                                         *)
(* SessionLocal is sessionmaker(autocommit=False, autoflush=False): an     *)
(* attribute set on an instance stays pending in the session until a       *)
(* commit flushes it, and a commit expires every instance of the session   *)
(* (expire_on_commit is left at its default), which empties the instance's *)
(* __dict__ until it is refreshed or loaded again.                         *)
(***************************************************************************)
DataColumns == Columns \ {"id"}

\* The value of attribute field of the instance of row i: the pending value if
\* one was set, the row's otherwise.
Attr(t, d, i, field) ==
    IF \E w \in d : w.id = i /\ w.field = field
    THEN (CHOOSE w \in d : w.id = i /\ w.field = field).value
    ELSE Col(t, i, field)

\* The instance of row i as the caller reads it.
Inst(t, d, i) == [id |-> i, a |-> Attr(t, d, i, "a"), b |-> Attr(t, d, i, "b")]

\* setattr(db_obj, field, value)
SetAttr(d, i, field, value) ==
    {w \in d : ~(w.id = i /\ w.field = field)}
        \cup {[id |-> i, field |-> field, value |-> value]}

\* The rows after the flush of a commit: every pending change is written.
Flushed(t, d) ==
    [i \in DOMAIN t |-> [f \in DataColumns |-> Attr(t, d, i, f)]]

\* The pending changes among d that a flush writes over a different value.
Written(t, d) == {w \in d : w.id \in DOMAIN t /\ t[w.id][w.field] # w.value}

\* A delete that deletes nothing.
WithoutNone(t, S) == t

\* The rows of t other than those with an id in S: db.delete(obj), or the
\* DELETE statement of bulk_delete.
Without(t, S) == [i \in DOMAIN t \ S |-> t[i]]

\* An Optional[ModelType]: the empty sequence for None, or the one instance.
NoRecord == << >>

\* query.filter(self.model.id == id).first()
first(t, d, id) == IF id \in DOMAIN t THEN <<Inst(t, d, id)>> ELSE NoRecord

\* get: the first record with the id, or None.  The caller keeps the instance.
get(id) ==
    /\ ~inactive
    /\ last' = [op |-> "get", id |-> id, pre |-> table, committed |-> FALSE,
                raised |-> FALSE, ret |-> first(table, dirty, id)]
    /\ held' = IF id \in DOMAIN table THEN held \cup {id} ELSE held
    /\ loaded' = IF id \in DOMAIN table THEN loaded \cup {id} ELSE loaded
    /\ UNCHANGED <<cfgVars, reqVars, dirVars, table, dirty, inactive, leaked>>

\* exists: whether the same query has a first record.
exists(t, d, id) == first(t, d, id) # NoRecord

\* What the caller passes update as obj_in: a dictionary with any keys, or a
\* schema with the columns as fields, of which the caller set some (the
\* others hold their defaults).
UpdateDicts == UNION {[K -> Val] : K \in SUBSET Keys}
ObjIns ==
    {[kind |-> "dict", data |-> d, set |-> DOMAIN d] : d \in UpdateDicts}
        \cup {[kind |-> "schema", data |-> d, set |-> S] :
                d \in [DataColumns -> Val], S \in SUBSET DataColumns}

\* update, "update_data = obj_in if isinstance(obj_in, dict) else
\* obj_in.dict(exclude_unset=True)"
UpdateData(obj_in) ==
    IF obj_in.kind = "dict" THEN obj_in.data
    ELSE [f \in obj_in.set |-> obj_in.data[f]]

\* jsonable_encoder(db_obj): no encoder knows a model instance, so it encodes
\* vars(db_obj) without the "_sa" keys: the attributes loaded in the
\* instance's __dict__, and none of an expired instance.
ObjDataKeys(isLoaded) == IF isLoaded THEN Columns ELSE {}

\* update, "for field in obj_data: if field in update_data: setattr(...)"
RECURSIVE SetAttrs(_, _, _, _)
SetAttrs(d, i, fields, update_data) ==
    IF fields = {} THEN d
    ELSE LET f == CHOOSE f \in fields : TRUE
         IN  SetAttrs(IF f \in DOMAIN update_data
                      THEN SetAttr(d, i, f, update_data[f]) ELSE d,
                      i, fields \ {f}, update_data)

\* update: db_obj is an instance the caller keeps; the fields of obj_data that
\* are in update_data are set, then add, commit and refresh.
update(id, obj_in) ==
    /\ ~inactive
    /\ id \in held
    /\ LET d == SetAttrs(dirty, id, ObjDataKeys(id \in loaded), UpdateData(obj_in))
       IN  /\ table' = Flushed(table, d)
           /\ leaked' = Written(table, dirty \cap d)
           /\ last' = [op |-> "update", id |-> id, obj_in |-> obj_in,
                       pre |-> table, committed |-> TRUE, raised |-> FALSE,
                       ret |-> Inst(Flushed(table, d), {}, id)]
    /\ dirty' = {}
    /\ loaded' = {id}
    /\ UNCHANGED <<cfgVars, reqVars, dirVars, held, inactive>>

\* remove: db.query(self.model).get(id); if there is a record, delete and
\* commit; the record, or None, is returned.
remove(id) ==
    /\ ~inactive
    /\ IF id \in DOMAIN table
       THEN /\ table' = Without(Flushed(table, dirty), {id})
            /\ leaked' = Written(table, {w \in dirty : w.id # id})
            /\ dirty' = {}
            /\ held' = held \ {id}
            /\ loaded' = {}
            /\ last' = [op |-> "remove", id |-> id, pre |-> table,
                        committed |-> TRUE, raised |-> FALSE,
                        ret |-> <<Inst(table, dirty, id)>>]
       ELSE /\ last' = [op |-> "remove", id |-> id, pre |-> table,
                        committed |-> FALSE, raised |-> FALSE, ret |-> NoRecord]
            /\ UNCHANGED <<table, leaked, dirty, held, loaded>>
    /\ UNCHANGED <<cfgVars, reqVars, dirVars, inactive>>

\* The number bulk_delete would return if it counted the ids it was given.
DeletedCountOfList(t, ids) == Len(ids)

\* bulk_delete, the rowcount of DELETE ... WHERE id IN (ids)
DeletedCount(t, ids) == Cardinality({i \in DOMAIN t : i \in Range(ids)})

\* bulk_delete: one DELETE statement (synchronize_session=False: the session
\* is not told), then commit.  The statement may fail (fails), and then
\* deletes nothing.  A pending change of a row the statement deleted makes
\* the flush of the commit fail (its UPDATE matches no row): the transaction
\* is rolled back and the session left inactive.
bulk_delete(ids, fails) ==
    /\ ~inactive
    /\ LET gone == {i \in DOMAIN table : i \in Range(ids)}
       IN  IF fails
           THEN /\ last' = [op |-> "bulk_delete", ids |-> ids, pre |-> table,
                            committed |-> FALSE, raised |-> TRUE, ret |-> 0]
                /\ UNCHANGED <<table, leaked, held, loaded, dirty, inactive>>
           ELSE IF \E w \in dirty : w.id \in gone
           THEN /\ inactive' = TRUE
                /\ dirty' = {}
                /\ loaded' = {}
                /\ last' = [op |-> "bulk_delete", ids |-> ids, pre |-> table,
                            committed |-> FALSE, raised |-> TRUE, ret |-> 0]
                /\ UNCHANGED <<table, leaked, held>>
           ELSE /\ table' = Without(Flushed(table, dirty), gone)
                /\ leaked' = Written(table, dirty)
                /\ dirty' = {}
                /\ held' = held \ gone
                /\ loaded' = {}
                /\ last' = [op |-> "bulk_delete", ids |-> ids, pre |-> table,
                            committed |-> TRUE, raised |-> FALSE,
                            ret |-> DeletedCount(table, ids)]
                /\ UNCHANGED inactive
    /\ UNCHANGED <<cfgVars, reqVars, dirVars>>

\* What the caller passes bulk_update: dictionaries with or without 'id',
\* with a column and with a key that is no attribute.
BulkKeys == {"id", "a", "zz"}
BulkDicts ==
    UNION {{e \in [K -> Ids \cup Val] :
               /\ "id" \in K => e["id"] \in Ids
               /\ "a" \in K => e["a"] \in Val
               /\ "zz" \in K => e["zz"] = 0} : K \in SUBSET BulkKeys}

\* update_data.pop('id'): the caller's dictionary loses the key.
PopId(e) == [f \in DOMAIN e \ {"id"} |-> e[f]]

\* bulk_update, one turn of its loop.  acc holds the pending changes, the ids
\* of updated_objs in order, and the caller's dictionaries as the loop leaves
\* them.
BulkUpdateStep(t, acc, e) ==
    IF "id" \notin DOMAIN e
    THEN [acc EXCEPT !.after = Append(@, e)]
    ELSE IF e["id"] \in DOMAIN t
         THEN [dirty |-> SetAttrs(acc.dirty, e["id"], Columns, PopId(e)),
               objs |-> Append(acc.objs, e["id"]),
               after |-> Append(acc.after, PopId(e))]
         ELSE [acc EXCEPT !.after = Append(@, PopId(e))]

\* bulk_update, the turns k..n of its loop.
RECURSIVE BulkUpdateLoop(_, _, _, _, _)
BulkUpdateLoop(t, acc, updates, k, n) ==
    IF k > n THEN acc
    ELSE BulkUpdateLoop(t, BulkUpdateStep(t, acc, updates[k]), updates, k + 1, n)

\* bulk_update: the loop, then one commit and the refreshes if a record was
\* found.  failAt = 0: no row fails.  Otherwise the turn of entry failAt
\* raises after its pop (in self.get or in a setattr), and the call ends
\* there: what the turns before it set stays pending in the session.
bulk_update(updates, failAt) ==
    /\ ~inactive
    /\ failAt > 0 => "id" \in DOMAIN updates[failAt]
    /\ IF failAt = 0
       THEN LET acc == BulkUpdateLoop(table, [dirty |-> dirty, objs |-> << >>,
                                              after |-> << >>],
                                      updates, 1, Len(updates))
            IN  IF acc.objs # << >>
                THEN /\ table' = Flushed(table, acc.dirty)
                     /\ leaked' = Written(table, dirty \cap acc.dirty)
                     /\ dirty' = {}
                     /\ held' = held \cup Range(acc.objs)
                     /\ loaded' = Range(acc.objs)
                     /\ last' = [op |-> "bulk_update", updates |-> updates,
                                 after |-> acc.after, pre |-> table,
                                 committed |-> TRUE, raised |-> FALSE,
                                 ret |-> [k \in DOMAIN acc.objs |->
                                    Inst(Flushed(table, acc.dirty), {}, acc.objs[k])]]
                ELSE /\ last' = [op |-> "bulk_update", updates |-> updates,
                                 after |-> acc.after, pre |-> table,
                                 committed |-> FALSE, raised |-> FALSE,
                                 ret |-> << >>]
                     /\ UNCHANGED <<table, leaked, dirty, held, loaded>>
       ELSE LET acc == BulkUpdateLoop(table, [dirty |-> dirty, objs |-> << >>,
                                              after |-> << >>],
                                      updates, 1, failAt - 1)
            IN  /\ dirty' = acc.dirty
                /\ last' = [op |-> "bulk_update", updates |-> updates,
                            after |-> Append(acc.after, PopId(updates[failAt]))
                                        \o SubSeq(updates, failAt + 1, Len(updates)),
                            pre |-> table, committed |-> FALSE, raised |-> TRUE,
                            ret |-> << >>]
                /\ UNCHANGED <<table, leaked, held, loaded>>
    /\ UNCHANGED <<cfgVars, reqVars, dirVars, inactive>>

\* The id the database gives the next inserted row.
NextId(t) == IF DOMAIN t = {} THEN 1 ELSE (CHOOSE i \in DOMAIN t : \A j \in DOMAIN t : j <= i) + 1

\* bulk_create: an instance per schema, add_all, one commit, the refreshes.
\* stage = "none": no row fails.  "build": encoding a schema or constructing
\* its instance raises, before add_all.  "flush": an INSERT of the commit
\* fails; the session rolls the transaction back, drops the new instances and
\* every pending change, and stays inactive until rollback() is called.
bulk_create(objs_in, stage) ==
    /\ ~inactive
    /\ NextId(table) + Len(objs_in) - 1 <= MaxId
    /\ stage # "none" => objs_in # << >>
    /\ LET base == NextId(table) - 1
           new == {base + k : k \in DOMAIN objs_in}
       IN  IF stage = "none"
           THEN /\ table' = [i \in DOMAIN table \cup new |->
                               IF i \in new THEN objs_in[i - base]
                               ELSE Flushed(table, dirty)[i]]
                /\ leaked' = Written(table, dirty)
                /\ dirty' = {}
                /\ held' = held \cup new
                /\ loaded' = new
                /\ last' = [op |-> "bulk_create", objs_in |-> objs_in, pre |-> table,
                            committed |-> TRUE, raised |-> FALSE,
                            ret |-> [k \in DOMAIN objs_in |->
                                       [id |-> base + k, a |-> objs_in[k].a,
                                        b |-> objs_in[k].b]]]
                /\ UNCHANGED inactive
           ELSE /\ last' = [op |-> "bulk_create", objs_in |-> objs_in, pre |-> table,
                            committed |-> FALSE, raised |-> TRUE, ret |-> << >>]
                /\ IF stage = "flush"
                   THEN inactive' = TRUE /\ dirty' = {} /\ loaded' = {}
                   ELSE UNCHANGED <<inactive, dirty, loaded>>
                /\ UNCHANGED <<table, leaked, held>>
    /\ UNCHANGED <<cfgVars, reqVars, dirVars>>

\* db.rollback(), by the caller or by get_db's "except Exception": pending
\* changes are dropped, every instance is expired, the session is usable.
rollback ==
    /\ dirty # {} \/ inactive
    /\ dirty' = {}
    /\ inactive' = FALSE
    /\ loaded' = {}
    /\ UNCHANGED <<cfgVars, reqVars, dirVars, table, held, leaked, last>>

(***************************************************************************)
(* The accessor's reads by id and its writes, no row failing.              *)
(***************************************************************************)
MaxIds == 2
MaxUpdates == 2

\* The caller has taken the result of the last call.
Return ==
    /\ last.op # "none"
    /\ last' = [op |-> "none"]
    /\ leaked' = {}
    /\ UNCHANGED <<cfgVars, reqVars, dirVars, table, held, loaded, dirty, inactive>>

CallGet == last.op = "none" /\ \E id \in Ids : get(id)
CallUpdate ==
    last.op = "none" /\ \E id \in Ids, obj_in \in ObjIns : update(id, obj_in)
CallRemove == last.op = "none" /\ \E id \in Ids : remove(id)
CallBulkDelete ==
    last.op = "none" /\ \E ids \in SeqsUpTo(Ids, MaxIds) : bulk_delete(ids, FALSE)
CallBulkUpdate ==
    last.op = "none" /\ \E updates \in SeqsUpTo(BulkDicts, MaxUpdates) :
        bulk_update(updates, 0)
CallBulkCreate ==
    last.op = "none" /\ \E objs_in \in SeqsUpTo(Rows, MaxUpdates) :
        bulk_create(objs_in, "none")

\* bulk_update called a second time with the list the caller passed to the
\* call before, as that call left it (the loop pops 'id' from the caller's own
\* dictionaries).  The record of the call keeps what the first call was
\* given, returned and left in the table.
CallBulkUpdateAgain ==
    /\ last.op = "bulk_update" /\ ~last.raised
    /\ ~inactive
    /\ LET updates == last.after
           acc == BulkUpdateLoop(table, [dirty |-> dirty, objs |-> << >>,
                                         after |-> << >>],
                                 updates, 1, Len(updates))
           again == [op |-> "bulk_update_again", updates |-> updates,
                     after |-> acc.after, pre |-> table,
                     first_updates |-> last.updates, first_ret |-> last.ret,
                     raised |-> FALSE]
       IN  IF acc.objs # << >>
           THEN /\ table' = Flushed(table, acc.dirty)
                /\ leaked' = Written(table, dirty \cap acc.dirty)
                /\ dirty' = {}
                /\ held' = held \cup Range(acc.objs)
                /\ loaded' = Range(acc.objs)
                /\ last' = [committed |-> TRUE,
                            ret |-> [k \in DOMAIN acc.objs |->
                                Inst(Flushed(table, acc.dirty), {}, acc.objs[k])]]
                           @@ again
           ELSE /\ last' = [committed |-> FALSE, ret |-> << >>] @@ again
                /\ UNCHANGED <<table, leaked, dirty, held, loaded>>
    /\ UNCHANGED <<cfgVars, reqVars, dirVars, inactive>>

NextCrud ==
    \/ CallGet
    \/ CallUpdate
    \/ CallRemove
    \/ CallBulkDelete
    \/ CallBulkUpdate
    \/ CallBulkUpdateAgain
    \/ CallBulkCreate
    \/ Return

SpecCrud == InitCrud /\ [][NextCrud]_vars

(***************************************************************************)
(* The same calls on one session, where a row of a bulk call may fail and  *)
(* the caller goes on using the session, with or without a rollback.       *)
(***************************************************************************)
FailBulkDelete ==
    last.op = "none" /\ \E ids \in SeqsUpTo(Ids, MaxIds) : bulk_delete(ids, TRUE)
FailBulkUpdate ==
    last.op = "none" /\
    \E updates \in SeqsUpTo(BulkDicts, MaxUpdates), failAt \in 1..MaxUpdates :
        failAt <= Len(updates) /\ bulk_update(updates, failAt)
FailBulkCreate ==
    last.op = "none" /\
    \E objs_in \in SeqsUpTo(Rows, MaxUpdates), stage \in {"build", "flush"} :
        bulk_create(objs_in, stage)
CallRollback == last.op = "none" /\ rollback

NextTxn ==
    \/ CallGet
    \/ CallUpdate
    \/ CallRemove
    \/ CallBulkDelete
    \/ CallBulkUpdate
    \/ CallBulkCreate
    \/ FailBulkDelete
    \/ FailBulkUpdate
    \/ FailBulkCreate
    \/ CallRollback
    \/ Return

SpecTxn == InitCrud /\ [][NextTxn]_vars

(***************************************************************************)
(* Properties of the queries.                                              *)
(***************************************************************************)
\* A record passes a filter entry when the entry's column has the entry's
\* value, or one of the values of its list.  An entry that names no
\* attribute of the model is passed by no record.
Passes(t, i, e) ==
    /\ hasattr(e.field)
    /\ IF e.value.isList
       THEN \E k \in DOMAIN e.value.vals : Col(t, i, e.field) = e.value.vals[k]
       ELSE Col(t, i, e.field) = e.value.vals[1]

\* As Passes, an entry that names no attribute of the model being ignored.
PassesOrIgnored(t, i, e) == hasattr(e.field) => Passes(t, i, e)

\* Record x may stand before record y in the requested order.
MayPrecede(t, x, y, order_by, order_desc) ==
    IF order_desc
    THEN Col(t, x, order_by) >= Col(t, y, order_by)
    ELSE Col(t, x, order_by) <= Col(t, y, order_by)

PermsOfSeq(fs) == {[k \in DOMAIN fs |-> fs[p[k]]] : p \in Perms(DOMAIN fs)}

\* What get_multi returned is: records of the table that are in M, each once;
\* as many as M has after the first skip, at most limit; in the requested
\* order, with skip records of M that may stand before all of them left out
\* and the rest of M after them; and M is what the filters select in whatever
\* order the entries are supplied.
GetMultiReturns(M) ==
    LET t == last.pre
        ret == last.ret
        R == {ret[k].id : k \in DOMAIN ret}
        ordered == last.order_by # None /\ hasattr(last.order_by)
    IN  /\ \A k \in DOMAIN ret : ret[k].id \in M /\ ret[k] = Obj(t, ret[k].id)
        /\ \A j, k \in DOMAIN ret : j # k => ret[j].id # ret[k].id
        /\ Len(ret) = Min(last.limit, Max(0, Cardinality(M) - last.skip))
        /\ ordered =>
             /\ \A j, k \in DOMAIN ret : j < k =>
                    MayPrecede(t, ret[j].id, ret[k].id, last.order_by, last.order_desc)
             /\ \E B \in SUBSET (M \ R) :
                    /\ Cardinality(B) = Min(last.skip, Cardinality(M))
                    /\ \A x \in B, y \in R :
                           MayPrecede(t, x, y, last.order_by, last.order_desc)
                    /\ \A x \in R, y \in (M \ R) \ B :
                           MayPrecede(t, x, y, last.order_by, last.order_desc)
        /\ \A p \in PermsOfSeq(last.filters) :
               get_multi_filters(t, DOMAIN t, p) = M

C8_CountIsLenGetMulti ==
    last.op = "count" =>
        /\ ~last.raised
        /\ last.ret =
             Cardinality(get_multi_filters(last.pre, DOMAIN last.pre, last.filters))

(***************************************************************************)
(* Properties of the writes.                                               *)
(***************************************************************************)
\* C5: bulk_delete returns the number of rows removed: the row count before
\* minus the row count after, which is the number of distinct records whose
\* id is in the list; afterwards no record with an id of the list remains and
\* every other record is unchanged.
C5_BulkDeleteReturnsRowsRemoved ==
    (last.op = "bulk_delete" /\ ~last.raised) =>
        LET t == last.pre
            ids == last.ids
        IN  /\ last.ret = Cardinality(DOMAIN t) - Cardinality(DOMAIN table)
            /\ last.ret = Cardinality({i \in DOMAIN t : \E k \in DOMAIN ids : ids[k] = i})
            /\ \A k \in DOMAIN ids : ids[k] \notin DOMAIN table
            /\ DOMAIN table \subseteq DOMAIN t
            /\ \A i \in DOMAIN t :
                   (\A k \in DOMAIN ids : ids[k] # i) =>
                       (i \in DOMAIN table /\ table[i] = t[i])

\* C5, reached: a list naming one id twice removed one record of two.
C5_Witness ==
    /\ last.op = "bulk_delete" /\ ~last.raised
    /\ Len(last.ids) = 2 /\ last.ids[1] = last.ids[2]
    /\ last.ret = 1
    /\ Cardinality(DOMAIN last.pre) = 2
    /\ Cardinality(DOMAIN table) = 1

\* C9: remove(id) returns the deleted record when a record with that id
\* exists and None otherwise; afterwards get(id) is None and exists(id) is
\* False, every other record is unchanged, and removing an absent id changes
\* nothing and commits nothing.
C9_RemoveDeletesTheRecord ==
    last.op = "remove" =>
        LET t == last.pre
            i == last.id
        IN  /\ i \in DOMAIN t => (last.ret = <<Obj(t, i)>> /\ last.committed)
            /\ i \notin DOMAIN t =>
                   (last.ret = NoRecord /\ table = t /\ ~last.committed)
            /\ first(table, dirty, i) = NoRecord
            /\ ~exists(table, dirty, i)
            /\ DOMAIN table \subseteq DOMAIN t
            /\ \A j \in DOMAIN t : j # i => (j \in DOMAIN table /\ table[j] = t[j])

\* C9, reached: a record was removed and returned, another was left.
C9_Witness ==
    /\ last.op = "remove"
    /\ last.ret # NoRecord
    /\ last.committed
    /\ Cardinality(DOMAIN last.pre) = 2
    /\ Cardinality(DOMAIN table) = 1

\* C10: update changes exactly the fields that are fields of the record and
\* present in the update data (for a schema, the fields explicitly set);
\* every other field of the record and every other record are unchanged, and
\* keys of the update data that are no fields of the record are ignored.
C10_UpdateChangesGivenFields ==
    last.op = "update" =>
        LET t == last.pre
            i == last.id
            given == IF last.obj_in.kind = "dict"
                     THEN DOMAIN last.obj_in.data ELSE last.obj_in.set
        IN  /\ DOMAIN table = DOMAIN t
            /\ \A f \in DataColumns :
                   table[i][f] = IF f \in given THEN last.obj_in.data[f] ELSE t[i][f]
            /\ \A j \in DOMAIN t : j # i => table[j] = t[j]

\* C7: bulk create, bulk update and bulk delete are all-or-nothing: when a
\* row of a bulk call fails, no row change of that call is ever persisted,
\* also not by a later commit of another operation on the same session.
C7_FailedBulkCallPersistsNothing == leaked = {}

\* The entries of a bulk_update list that name a record of table t, in order.
FoundIds(t, updates) ==
    LET RECURSIVE Found(_)
        Found(k) ==
            IF k > Len(updates) THEN << >>
            ELSE IF "id" \in DOMAIN updates[k] /\ updates[k]["id"] \in DOMAIN t
                 THEN <<updates[k]["id"]>> \o Found(k + 1)
                 ELSE Found(k + 1)
    IN  Found(1)

\* C11: bulk_update returns exactly the records whose id appears in an entry
\* and exists in the table, skips entries without an 'id' or with an unknown
\* id, commits only when a record was found, and leaves the caller's list of
\* update dictionaries unchanged, so a second call with the same list returns
\* the same records and leaves the same table as the first call.
C11_BulkUpdateIsRepeatable ==
    /\ (last.op = "bulk_update" /\ ~last.raised) =>
           LET found == FoundIds(last.pre, last.updates)
           IN  /\ Len(last.ret) = Len(found)
               /\ \A k \in DOMAIN found : last.ret[k].id = found[k]
               /\ last.committed <=> found # << >>
               /\ found = << >> => table = last.pre
               /\ last.after = last.updates
    /\ last.op = "bulk_update_again" =>
           /\ last.updates = last.first_updates
           /\ last.ret = last.first_ret
           /\ table = last.pre

\* C11, the second call alone: it returns what the first call returned.
C11_SecondCallReturnsTheSame ==
    last.op = "bulk_update_again" => last.ret = last.first_ret

\* C11 without the caller's list: what a single call returns and commits.
C11_SingleCallReturnsFound ==
    (last.op = "bulk_update" /\ ~last.raised) =>
        LET found == FoundIds(last.pre, last.updates)
        IN  /\ Len(last.ret) = Len(found)
            /\ \A k \in DOMAIN found : last.ret[k].id = found[k]
            /\ last.committed <=> found # << >>
            /\ found = << >> => table = last.pre

=============================================================================
